---- MODULE Spec2Model ----
(***************************************************************************)
(* A model of run_summary.py (aekiss/run_summary): the run registry built  *)
(* from PBS job logs, its enrichment with git and configuration data, the  *)
(* removal of failed and superseded jobs, the timing and git-diff passes,  *)
(* the namelist column computation and the parsers they rest on.           *)
(*                                                                         *)
(* Python values are modelled as follows.  None is the empty sequence and  *)
(* a non-null scalar v read from a log is the one-element sequence <<v>>,  *)
(* so that "is None" and "== 0" are decided as Python decides them.  A     *)
(* dict is a function whose DOMAIN is its key set; a missing key is a key  *)
(* outside the DOMAIN.  Dict iteration order is kept in a sequence of keys.*)
(***************************************************************************)
EXTENDS Integers, Sequences, FiniteSets, TLC

\* ------------------------------------------------------------------ bounds
MaxJobs == 3
MaxEnvJobs == 2
MaxRun == 2
MaxDate == 2

\* ------------------------------------------------------------ Python values
None == <<>>
Some(v) == <<v>>
IsNone(x) == x = None
Val(x) == x[1]

Max(a, b) == IF a > b THEN a ELSE b

Del(d, k) == [x \in (DOMAIN d) \ {k} |-> d[x]]
Put(d, k, v) == (k :> v) @@ d
HasKey(d, k) == k \in DOMAIN d
EmptyDict == [x \in {} |-> None]

VARIABLES
    pc,            \* position of run_summary
    err,           \* the exception that ended run_summary, "" if none
    limit,         \* number of job logs the file system may hold
    logs,          \* what parse_pbs_log may return for a job log
    shapes,        \* contents an output directory may have
    history,       \* the git history: commit dates, oldest first
    order,         \* key order of the dict run_data as first built
    run_data,
    all_run_data,
    sortedjobids,
    nmls_any_runs,
    nmls_all_runs,
    output_format_nmls,   \* the [nml, group, var] of every dynamic column
    csv,           \* data rows written to outfile, None until it is opened
    fs,            \* the files under each candidate path of the readers
    reader,        \* what parse_config_yaml and parse_nml have returned
    lines,         \* number of lines parse_pbs_log has read from its file
    parsed_items,  \* parse_pbs_log's dict
    pbs_pc,        \* position of parse_pbs_log
    globbed,       \* the job logs the three globs of lines 308-310 list
    nread,         \* number of them the discovery loop has read
    dg_args,       \* <<d, l>> of the outermost call of dictget
    dg_d,          \* d of the innermost call
    dg_l,          \* l of the innermost call
    dg_pc,         \* position of dictget, the exception's name if one left it
    dg_val         \* what dictget returned

\* state of run_summary
summaryVars == <<pc, err, limit, logs, shapes, history, order, run_data, all_run_data,
                 sortedjobids, nmls_any_runs, nmls_all_runs, output_format_nmls, csv>>

\* state of the readers and of parse_pbs_log when run on their own
readerVars == <<fs, reader>>
pbsVars == <<lines, parsed_items, pbs_pc>>

\* state of the discovery loop when run on its own
discVars == <<globbed, nread>>

\* state of dictget when run on its own
dictgetVars == <<dg_args, dg_d, dg_l, dg_pc, dg_val>>

vars == <<summaryVars, readerVars, pbsVars, discVars, dictgetVars>>

\* ------------------------------------------------------- job logs (inputs)
RunNumbers == {None} \cup {Some(r) : r \in 1..MaxRun}
Dates == {None} \cup {Some(d) : d \in 1..MaxDate}
ExitStatuses == {Some(0), Some(1)}

\* the fields of parse_pbs_log's result that run_summary reads
PbsLog(run, date, exit) ==
    "Run number" :> run @@ "Run completion date" :> date @@ "Exit Status" :> exit

PbsLogs == {PbsLog(r, d, e) : r \in RunNumbers, d \in Dates, e \in ExitStatuses}

\* the logs payu writes: each has its "git commit ... Run N" line.  A job
\* with a nonzero exit status is deleted at lines 339-345 whatever its date
\* is, so such jobs carry one date; a job with exit status 0 carries any
\* date or none.
NumberedLogs ==
    {l \in PbsLogs : /\ l["Run number"] # None
                     /\ \/ l["Exit Status"] = Some(0)
                        \/ l["Run completion date"] = Some(1)}

\* ------------------------------------------------------------ parse_git_log
\* `git rev-list -1 --before=datestr HEAD`: newest commit not after datestr
RevList(h, datestr) ==
    LET older == {k \in 1..Len(h) : h[k] <= datestr}
    IN  IF older = {} THEN 0 ELSE CHOOSE k \in older : \A m \in older : m <= k

\* stdout of `git log -1 --pretty=... <rev>` split on tabs; an empty <rev>
\* makes git log show HEAD, and no commit at all leaves stdout empty
GitLogOutput(h, datestr) ==
    LET rev == RevList(h, datestr)
        c == IF rev = 0 THEN Len(h) ELSE rev
    IN  IF c = 0 THEN <<"">> ELSE <<c, "author", h[c], c>>

parse_git_log_raises(h, datestr) == Len(GitLogOutput(h, datestr)) < 4

parse_git_log(h, datestr) ==
    LET log == GitLogOutput(h, datestr)
    IN  "Commit" :> log[1] @@ "Author" :> log[2] @@ "Date" :> log[3]
        @@ "Message" :> log[4]

\* ------------------------------------------- parse_config_yaml / parse_nml
\* What the two readers return for one output directory, as far as the
\* timing pass and the fixed report columns read it.
Submodel(ts) == "timestep" :> ts @@ "ncpus" :> 1
Runtime == "years" :> 1 @@ "months" :> 0 @@ "days" :> 0
ConfigFull ==
    "queue" :> "normal" @@ "submodels" :> <<Submodel(5), Submodel(6), Submodel(7)>>
    @@ "calendar" :> ("runtime" :> Runtime)
ConfigNoCalendar == "queue" :> "normal" @@ "submodels" :> <<Submodel(5), Submodel(6)>>
ConfigNoFile == EmptyDict

NmlFull ==
    "accessom2_nml" :> ("ice_ocean_timestep" :> 9)
    @@ "date_manager_nml" :> ("restart_period" :> <<0, 3, 0>>)
NmlNoRestart ==
    "accessom2_nml" :> ("ice_ocean_timestep" :> 9)
    @@ "date_manager_nml" :> EmptyDict

OutputDir(config, accessom2) ==
    "MOM_time_stamp.out" :> EmptyDict @@ "config.yaml" :> config
    @@ "namelists" :> ("accessom2.nml" :> accessom2)

DirMATM == OutputDir(ConfigFull, None)
DirYATM == OutputDir(ConfigNoCalendar, NmlFull)
DirNoConfig == OutputDir(ConfigNoFile, None)
DirNoCalendar == OutputDir(ConfigNoCalendar, None)
DirNoRestart == OutputDir(ConfigFull, NmlNoRestart)

WellFormedDirs == {DirMATM, DirYATM}
AllDirs == {DirMATM, DirYATM, DirNoConfig, DirNoCalendar, DirNoRestart}

\* ------------------------------------------------------- registry passes
\* line 327: the output directory belongs to the job only if it succeeded
OutputBelongsToJob_Always(pbs) == TRUE

OutputBelongsToJob(pbs) == pbs["Exit Status"] = Some(0)

\* lines 319-333, from the job at the head of js on; stops at the first raise
RECURSIVE EnrichLoop(_, _, _, _)
EnrichLoop(js, rd, h, o) ==
    IF js = <<>> THEN [rd |-> rd, err |-> ""]
    ELSE LET jobid == Head(js)
             pbs == rd[jobid]["PBS log"]
             date == pbs["Run completion date"]
         IN  IF date = None THEN EnrichLoop(Tail(js), rd, h, o)
             ELSE IF parse_git_log_raises(h, Val(date))
             THEN [rd |-> rd, err |-> "parse_git_log: IndexError"]
             ELSE LET r1 == Put(rd[jobid], "git log", parse_git_log(h, Val(date)))
                      dir == o[pbs["Run number"]]
                      r2 == IF OutputBelongsToJob(pbs)
                            THEN Put(Put(Put(r1,
                                     "MOM_time_stamp.out", dir["MOM_time_stamp.out"]),
                                     "config.yaml", dir["config.yaml"]),
                                     "namelists", dir["namelists"])
                            ELSE r1
                  IN  EnrichLoop(Tail(js), Put(rd, jobid, r2), h, o)

\* the run numbers whose output directory the enrichment pass reads
DirsRead(rd) ==
    {rd[j]["PBS log"]["Run number"] : j \in
        {k \in DOMAIN rd : rd[k]["PBS log"]["Run completion date"] # None
                           /\ OutputBelongsToJob(rd[k]["PBS log"])}}

\* lines 337-345
\* lines 341-344 with the test of the date left out
Failed_ExitOnly(pbs) == pbs["Exit Status"] # Some(0)

\* lines 341-344
Failed(pbs) == pbs["Run completion date"] = None \/ pbs["Exit Status"] # Some(0)

RemoveFailedJobs(rd) == [j \in {k \in DOMAIN rd : ~Failed(rd[k]["PBS log"])} |-> rd[j]]

\* ---------------------------------------------- sorting and de-duplication
RunOf(rd, jobid) == rd[jobid]["PBS log"]["Run number"]
DateOf(rd, jobid) == rd[jobid]["PBS log"]["Run completion date"]

\* [(k, v['PBS log']['Run number']) for (k, v) in run_data.items()]
RECURSIVE Items(_, _)
Items(ord, rd) ==
    IF ord = <<>> THEN <<>>
    ELSE IF Head(ord) \in DOMAIN rd
         THEN <<<<Head(ord), RunOf(rd, Head(ord))>>>> \o Items(Tail(ord), rd)
         ELSE Items(Tail(ord), rd)

\* sorted() compares the keys with <, which raises TypeError on None
sorted_raises(ts) == Len(ts) >= 2 /\ \E i \in 1..Len(ts) : ts[i][2] = None

RECURSIVE InsertByRun(_, _)
InsertByRun(t, s) ==
    IF s = <<>> THEN <<t>>
    ELSE IF Val(t[2]) < Val(Head(s)[2]) THEN <<t>> \o s
         ELSE <<Head(s)>> \o InsertByRun(t, Tail(s))

\* sorted(ts, key=lambda t: t[1]): stable, ties keep the order of ts
RECURSIVE sorted(_)
sorted(ts) ==
    IF Len(ts) <= 1 THEN ts
    ELSE InsertByRun(ts[Len(ts)], sorted(SubSeq(ts, 1, Len(ts) - 1)))

\* lines 358-367 with the else branch of line 365 left out
RECURSIVE RemoveOlder_KeepsBoth(_, _, _)
RemoveOlder_KeepsBoth(ts, prev_jobid_run, rd) ==
    IF ts = <<>> THEN rd
    ELSE LET jobid_run == Head(ts)
         IN  IF jobid_run[2] = prev_jobid_run[2]
             THEN IF Val(DateOf(rd, jobid_run[1])) > Val(DateOf(rd, prev_jobid_run[1]))
                  THEN RemoveOlder_KeepsBoth(Tail(ts), jobid_run, Del(rd, prev_jobid_run[1]))
                  ELSE RemoveOlder_KeepsBoth(Tail(ts), prev_jobid_run, rd)
             ELSE RemoveOlder_KeepsBoth(Tail(ts), jobid_run, rd)

\* lines 358-367 with the comparison of line 361 turned round
RECURSIVE RemoveOlder_KeepsOlder(_, _, _)
RemoveOlder_KeepsOlder(ts, prev_jobid_run, rd) ==
    IF ts = <<>> THEN rd
    ELSE LET jobid_run == Head(ts)
         IN  IF jobid_run[2] = prev_jobid_run[2]
             THEN IF Val(DateOf(rd, jobid_run[1])) < Val(DateOf(rd, prev_jobid_run[1]))
                  THEN RemoveOlder_KeepsOlder(Tail(ts), jobid_run, Del(rd, prev_jobid_run[1]))
                  ELSE RemoveOlder_KeepsOlder(Tail(ts), prev_jobid_run, Del(rd, jobid_run[1]))
             ELSE RemoveOlder_KeepsOlder(Tail(ts), jobid_run, rd)

\* lines 358-367: the scan over jobid_run_tuples[1:], ts what is left of it
RECURSIVE RemoveOlder(_, _, _)
RemoveOlder(ts, prev_jobid_run, rd) ==
    IF ts = <<>> THEN rd
    ELSE LET jobid_run == Head(ts)
         IN  IF jobid_run[2] = prev_jobid_run[2]
             THEN IF Val(DateOf(rd, jobid_run[1])) > Val(DateOf(rd, prev_jobid_run[1]))
                  THEN RemoveOlder(Tail(ts), jobid_run, Del(rd, prev_jobid_run[1]))
                  ELSE RemoveOlder(Tail(ts), prev_jobid_run, Del(rd, jobid_run[1]))
             ELSE RemoveOlder(Tail(ts), jobid_run, rd)

\* ------------------------------------------------------------------ timing
\* lines 383-392 for one job: does a lookup raise KeyError or IndexError
timing_raises(r) ==
    LET nml == r["namelists"]["accessom2.nml"]
        cfg == r["config.yaml"]
    IN  IF nml = None
        THEN ~ (/\ HasKey(cfg, "submodels")
                /\ Len(cfg["submodels"]) >= 2
                /\ HasKey(cfg["submodels"][2], "timestep")
                /\ HasKey(cfg, "calendar")
                /\ HasKey(cfg["calendar"], "runtime")
                /\ {"years", "months", "days"} \subseteq DOMAIN cfg["calendar"]["runtime"])
        ELSE ~ (/\ HasKey(nml, "accessom2_nml")
                /\ HasKey(nml["accessom2_nml"], "ice_ocean_timestep")
                /\ HasKey(nml, "date_manager_nml")
                /\ HasKey(nml["date_manager_nml"], "restart_period")
                /\ Len(nml["date_manager_nml"]["restart_period"]) >= 3)

timing(r) ==
    LET nml == r["namelists"]["accessom2.nml"]
        cfg == r["config.yaml"]
    IN  IF nml = None
        THEN LET rt == cfg["calendar"]["runtime"]
             IN  "Timestep" :> cfg["submodels"][2]["timestep"]
                 @@ "Run length" :> <<rt["years"], rt["months"], rt["days"], 0>>
        ELSE LET rp == nml["date_manager_nml"]["restart_period"]
             IN  "Timestep" :> nml["accessom2_nml"]["ice_ocean_timestep"]
                 @@ "Run length" :> SubSeq(rp, 1, 2) \o <<0>> \o <<rp[3]>>

\* lines 382-392, from the job at the head of js on; stops at the first raise
RECURSIVE TimingLoop(_, _)
TimingLoop(js, rd) ==
    IF js = <<>> THEN [rd |-> rd, err |-> ""]
    ELSE LET jobid == Head(js)
         IN  IF jobid \notin DOMAIN rd THEN TimingLoop(Tail(js), rd)
             ELSE IF timing_raises(rd[jobid])
             THEN [rd |-> rd, err |-> "timing: KeyError"]
             ELSE TimingLoop(Tail(js),
                             Put(rd, jobid, Put(rd[jobid], "timing", timing(rd[jobid]))))

\* ---------------------------------------------------------------- git_diff
Min(a, b) == IF a < b THEN a ELSE b

\* commit k of the modelled history changes file k alone and has message k
RECURSIVE Range(_, _)
Range(a, b) == IF a > b THEN <<>> ELSE <<a>> \o Range(a + 1, b)

Reverse(s) == [i \in 1..Len(s) |-> s[Len(s) + 1 - i]]

\* `git log --ancestry-path sha1..sha2`, newest first
GitLogRange(sha1, sha2) == Reverse(Range(sha1 + 1, sha2))

git_diff(sha1, sha2) ==
    LET m == Reverse(GitLogRange(sha1, sha2))
    IN  "Changed files" :> Range(Min(sha1, sha2) + 1, Max(sha1, sha2))
        @@ "Messages" :> (IF Len(m) = 0 THEN None ELSE Some(m))

\* line 399 with the previous run replaced by the run itself
PrevIndex_Self(i) == i

\* line 399: sortedjobids[max(i-1, 0)], positions counted from 1 here
PrevIndex(i) == Max(i - 1, 1)

\* lines 395-400
GitDiffLoop(ids, rd) ==
    [j \in DOMAIN rd |->
        IF \E i \in 1..Len(ids) : ids[i] = j
        THEN LET i == CHOOSE i \in 1..Len(ids) : ids[i] = j
             IN  Put(rd[j], "git diff",
                     git_diff(rd[ids[PrevIndex(i)]]["git log"]["Commit"],
                              rd[j]["git log"]["Commit"]))
        ELSE rd[j]]

\* ----------------------------------------------------------------- dictget
RECURSIVE dictget(_, _)
dictget(d, l) ==
    IF l[1] \notin DOMAIN d THEN None
    ELSE IF Len(l) = 1 THEN d[l[1]]
         ELSE dictget(d[l[1]], Tail(l))

\* the fixed columns of output_format that the model's records can fill
output_format ==
    "Run number" :> <<"PBS log", "Run number">>
    @@ "Run completion date" :> <<"PBS log", "Run completion date">>
    @@ "Run length (years, months, days, seconds)" :> <<"timing", "Run length">>
    @@ "Queue" :> <<"config.yaml", "queue">>
    @@ "Timestep (s)" :> <<"timing", "Timestep">>
    @@ "Git hash" :> <<"git log", "Commit">>
    @@ "Git-tracked file changes since previous run" :> <<"git diff", "Changed files">>
    @@ "Git log messages since previous run" :> <<"git diff", "Messages">>

\* line 529
Row(rd, jobid) ==
    [h \in DOMAIN output_format |-> dictget(rd, <<jobid>> \o output_format[h])]

\* ------------------------------------------------- nmltab.superset, nmldiff
\* nmlall maps job ids to namelists (group -> variable -> value); js is the
\* iteration order of its keys.
GroupsOf(nmlall) == UNION {DOMAIN nmlall[j] : j \in DOMAIN nmlall}

VarsOf(nmlall, group) ==
    UNION {DOMAIN nmlall[j][group] : j \in {k \in DOMAIN nmlall : group \in DOMAIN nmlall[k]}}

\* the value dict.update leaves: that of the last namelist holding the variable
RECURSIVE LastValue(_, _, _, _)
LastValue(js, nmlall, group, var) ==
    LET j == js[Len(js)]
    IN  IF group \in DOMAIN nmlall[j] /\ var \in DOMAIN nmlall[j][group]
        THEN nmlall[j][group][var]
        ELSE LastValue(SubSeq(js, 1, Len(js) - 1), nmlall, group, var)

superset(js, nmlall) ==
    [group \in GroupsOf(nmlall) |->
        [var \in VarsOf(nmlall, group) |-> LastValue(js, nmlall, group, var)]]

\* a variable is removed when every namelist has it in the group with one value
DeleteVar(js, nmlall, group, var) ==
    /\ \A j \in DOMAIN nmlall : group \in DOMAIN nmlall[j]
    /\ \A j \in DOMAIN nmlall : var \in DOMAIN nmlall[j][group]
    /\ \A j \in DOMAIN nmlall : nmlall[j][group][var] = superset(js, nmlall)[group][var]

KeptVars(js, nmlall, j, group) ==
    {var \in DOMAIN nmlall[j][group] : ~DeleteVar(js, nmlall, group, var)}

\* a group is removed when every namelist has it and it is left empty in all
DeleteGroup(js, nmlall, group) ==
    /\ \A j \in DOMAIN nmlall : group \in DOMAIN nmlall[j]
    /\ \A j \in DOMAIN nmlall : KeptVars(js, nmlall, j, group) = {}

nmldiff(js, nmlall) ==
    [j \in DOMAIN nmlall |->
        [group \in {g \in DOMAIN nmlall[j] : ~DeleteGroup(js, nmlall, g)} |->
            [var \in KeptVars(js, nmlall, j, group) |-> nmlall[j][group][var]]]]

\* ------------------------------------------------ namelist report columns
\* keys of run_data in iteration order
RECURSIVE Keys(_, _)
Keys(ord, rd) ==
    IF ord = <<>> THEN <<>>
    ELSE IF Head(ord) \in DOMAIN rd THEN <<Head(ord)>> \o Keys(Tail(ord), rd)
         ELSE Keys(Tail(ord), rd)

\* line 473: nml is a key of run_nmls, a file name, and never None
newnone(nml) == FALSE

\* lines 465-477, from the job at the head of js on
RECURSIVE NmlsLoop(_, _, _)
NmlsLoop(js, rd, acc) ==
    IF js = <<>> THEN acc
    ELSE LET run_nmls == rd[Head(js)]["namelists"]
             any == DOMAIN run_nmls \cup acc.any
             all == {nml \in DOMAIN run_nmls \cap acc.all : run_nmls[nml] # None}
             no == [nml \in DOMAIN acc.no \cup DOMAIN run_nmls |->
                      IF nml \in DOMAIN run_nmls
                      THEN IF nml \in DOMAIN acc.no
                           THEN acc.no[nml] /\ newnone(nml)
                           ELSE newnone(nml)
                      ELSE acc.no[nml]]
         IN  NmlsLoop(Tail(js), rd, [any |-> any, all |-> all, no |-> no])

\* lines 460-480
NmlSets(js, rd) ==
    LET first == DOMAIN rd[js[1]]["namelists"]
        acc == NmlsLoop(js, rd, [any |-> first, all |-> first,
                                 no |-> [k \in first |-> TRUE]])
    IN  [any |-> {nml \in acc.any : ~acc.no[nml]}, all |-> acc.all]

\* lines 491-495 and 506-510: one [nml, group, var] for each var of each group
Ngv(nml, groups) ==
    UNION {{<<nml, group, var>> : var \in DOMAIN groups[group]} : group \in DOMAIN groups}

\* lines 483-495 with the call of nmldiff left out
ChangedColumns_NoDiff(js, rd, nml) ==
    Ngv(nml, superset(js, [j \in DOMAIN rd |-> rd[j]["namelists"][nml]]))

\* lines 483-495 for one nml of nmls_all_runs
ChangedColumns(js, rd, nml) ==
    LET nmllistall == [j \in DOMAIN rd |-> rd[j]["namelists"][nml]]
    IN  Ngv(nml, superset(js, nmldiff(js, nmllistall)))

\* lines 498-510 with the variation filter of line 490 applied here too
SomeRunsColumns_Diffed(js, rd, nml) ==
    LET has == {j \in DOMAIN rd : /\ nml \in DOMAIN rd[j]["namelists"]
                                  /\ rd[j]["namelists"][nml] # None}
        nmllistall == [j \in has |-> rd[j]["namelists"][nml]]
        hs == SelectSeq(js, LAMBDA j : j \in has)
    IN  Ngv(nml, superset(hs, nmldiff(hs, nmllistall)))

\* lines 498-510 for one nml of nmls_any_runs - nmls_all_runs
SomeRunsColumns(js, rd, nml) ==
    LET has == {j \in DOMAIN rd : /\ nml \in DOMAIN rd[j]["namelists"]
                                  /\ rd[j]["namelists"][nml] # None}
        nmllistall == [j \in has |-> rd[j]["namelists"][nml]]
    IN  Ngv(nml, superset(SelectSeq(js, LAMBDA j : j \in has), nmllistall))

\* line 529 with the dynamic columns
FullRow(rd, cols, jobid) ==
    [fixed |-> Row(rd, jobid),
     nmls |-> [ngv \in cols |-> dictget(rd, <<jobid, "namelists">> \o ngv)]]

\* ------------------------------------------------------------- run_summary
\* a commit on every date a job may complete on
DefaultHistory == [k \in 1..MaxDate |-> k]

\* the first commit is made after the first completion date
LateHistory == [k \in 1..MaxDate |-> k + 1]

\* the readers and parse_pbs_log are not run on their own
InitOthersIdle ==
    /\ fs = <<>>
    /\ reader = EmptyDict
    /\ lines = 0
    /\ parsed_items = EmptyDict
    /\ pbs_pc = "idle"
    /\ globbed = <<>>
    /\ nread = 0
    /\ dg_args = <<>>
    /\ dg_d = None
    /\ dg_l = <<>>
    /\ dg_pc = "idle"
    /\ dg_val = None

InitCommon ==
    /\ InitOthersIdle
    /\ pc = "discover"
    /\ err = ""
    /\ order = <<>>
    /\ run_data = EmptyDict
    /\ all_run_data = EmptyDict
    /\ sortedjobids = <<>>
    /\ nmls_any_runs = {}
    /\ nmls_all_runs = {}
    /\ output_format_nmls = {}
    /\ csv = None

\* the files are as payu leaves them: numbered logs, commits in the
\* repository, a MOM-only (MATM) configuration in every output directory
Init ==
    /\ InitCommon
    /\ limit = MaxJobs
    /\ logs = NumberedLogs
    /\ shapes = {DirMATM}
    /\ history = DefaultHistory

\* degraded files: logs without a run number, a repository without commits,
\* output directories of any shape
InitEnv ==
    /\ InitCommon
    /\ limit = MaxEnvJobs
    /\ logs = PbsLogs
    /\ shapes = AllDirs
    /\ history \in {<<>>, LateHistory}

\* an uncaught exception ends the process and with it its data
Raise(e) ==
    /\ pc' = "crashed"
    /\ err' = e
    /\ order' = <<>>
    /\ run_data' = EmptyDict
    /\ all_run_data' = EmptyDict
    /\ sortedjobids' = <<>>

\* lines 307-316 for the log of one more job; job ids are numbered in the
\* order of reading
ReadLog ==
    /\ UNCHANGED <<readerVars, pbsVars, discVars, dictgetVars>>
    /\ pc = "discover"
    /\ Len(order) < limit
    /\ \E pbs \in logs :
          LET jobid == Len(order) + 1
          IN  /\ run_data' = Put(run_data, jobid, "PBS log" :> pbs)
              /\ order' = Append(order, jobid)
    /\ UNCHANGED <<pc, err, limit, logs, shapes, history, all_run_data, sortedjobids,
                   nmls_any_runs, nmls_all_runs, output_format_nmls, csv>>

\* lines 318-333, once the last job log is read
GetRunData ==
    /\ UNCHANGED <<readerVars, pbsVars, discVars, dictgetVars>>
    /\ pc = "discover"
    /\ \E o \in [DirsRead(run_data) -> shapes] :
          LET res == EnrichLoop(order, run_data, history, o)
          IN  IF res.err # "" THEN Raise(res.err)
              ELSE /\ run_data' = res.rd
                   /\ pc' = "enriched"
                   /\ UNCHANGED <<err, order, all_run_data, sortedjobids>>
    /\ UNCHANGED <<limit, logs, shapes, history,
                   nmls_any_runs, nmls_all_runs, output_format_nmls, csv>>

\* lines 335-378: failed jobs leave run_data, then the older of two jobs
\* with one run number
RemoveDuplicates ==
    /\ UNCHANGED <<readerVars, pbsVars, discVars, dictgetVars>>
    /\ pc = "enriched"
    /\ LET successful == RemoveFailedJobs(run_data)
           jobid_run_tuples == Items(order, successful)
       IN  IF sorted_raises(jobid_run_tuples)
           THEN Raise("sorted: TypeError")
           ELSE IF Len(jobid_run_tuples) = 0
           THEN /\ pc' = "aborted"
                /\ all_run_data' = run_data
                /\ run_data' = successful
                /\ UNCHANGED <<err, order, sortedjobids>>
           ELSE LET ts == sorted(jobid_run_tuples)
                    rd == RemoveOlder(Tail(ts), Head(ts), successful)
                    again == sorted(Items(order, rd))
                IN  /\ all_run_data' = run_data
                    /\ run_data' = rd
                    /\ sortedjobids' = [i \in 1..Len(again) |-> again[i][1]]
                    /\ pc' = "deduped"
                    /\ UNCHANGED <<err, order>>
    /\ UNCHANGED <<limit, logs, shapes, history,
                   nmls_any_runs, nmls_all_runs, output_format_nmls, csv>>

\* lines 380-392
MakeTiming ==
    /\ UNCHANGED <<readerVars, pbsVars, discVars, dictgetVars>>
    /\ pc = "deduped"
    /\ LET res == TimingLoop(Keys(order, run_data), run_data)
       IN  IF res.err # "" THEN Raise(res.err)
           ELSE /\ run_data' = res.rd
                /\ pc' = "timed"
                /\ UNCHANGED <<err, order, all_run_data, sortedjobids>>
    /\ UNCHANGED <<limit, logs, shapes, history,
                   nmls_any_runs, nmls_all_runs, output_format_nmls, csv>>

\* lines 394-400
GitDiffs ==
    /\ UNCHANGED <<readerVars, pbsVars, discVars, dictgetVars>>
    /\ pc = "timed"
    /\ run_data' = GitDiffLoop(sortedjobids, run_data)
    /\ pc' = "diffed"
    /\ UNCHANGED <<err, limit, logs, shapes, history, order, all_run_data, sortedjobids,
                   nmls_any_runs, nmls_all_runs, output_format_nmls, csv>>

\* lines 458-517
NamelistColumns ==
    /\ UNCHANGED <<readerVars, pbsVars, discVars, dictgetVars>>
    /\ pc = "diffed"
    /\ LET js == Keys(order, run_data)
           sets == NmlSets(js, run_data)
       IN  /\ nmls_any_runs' = sets.any
           /\ nmls_all_runs' = sets.all
           /\ output_format_nmls' =
                 UNION {ChangedColumns(js, run_data, nml) : nml \in sets.all}
                 \cup UNION {SomeRunsColumns(js, run_data, nml) : nml \in sets.any \ sets.all}
    /\ pc' = "columns"
    /\ UNCHANGED <<err, limit, logs, shapes, history, order, run_data, all_run_data,
                   sortedjobids, csv>>

\* lines 519-531
WriteCsv ==
    /\ UNCHANGED <<readerVars, pbsVars, discVars, dictgetVars>>
    /\ pc = "columns"
    /\ csv' = Some([i \in 1..Len(sortedjobids) |->
                      FullRow(run_data, output_format_nmls, sortedjobids[i])])
    /\ pc' = "done"
    /\ UNCHANGED <<err, limit, logs, shapes, history, order, run_data, all_run_data,
                   sortedjobids, nmls_any_runs, nmls_all_runs, output_format_nmls>>

Next ==
    \/ ReadLog
    \/ GetRunData
    \/ RemoveDuplicates
    \/ MakeTiming
    \/ GitDiffs
    \/ NamelistColumns
    \/ WriteCsv

Spec == Init /\ [][Next]_vars

SpecEnv == InitEnv /\ [][Next]_vars

\* --------------------------------------------- namelist columns on their own
MaxColRuns == 2

\* namelists as f90nml reads them: group -> variable -> value
ThermoGroups ==
    {[var \in vs |-> IF var = "ktherm" THEN k ELSE 1] :
        vs \in SUBSET {"ktherm", "kitd"}, k \in {2, 4}}

NmlTrees ==
    {EmptyDict}
    \cup {"thermo_nml" :> g : g \in ThermoGroups}
    \cup {"setup_nml" :> ("ndtd" :> 1)}
    \cup {"thermo_nml" :> g @@ "setup_nml" :> ("ndtd" :> 1) : g \in ThermoGroups}

NmlFullB ==
    "accessom2_nml" :> ("ice_ocean_timestep" :> 8)
    @@ "date_manager_nml" :> ("restart_period" :> <<0, 3, 0>>)

\* what parse_nml may return: accessom2.nml always has an entry
RunNamelists ==
    {"accessom2.nml" :> a : a \in {None, NmlFull, NmlFullB}}
    \cup {"accessom2.nml" :> a @@ "ice/cice_in.nml" :> t :
             a \in {None, NmlFull, NmlFullB}, t \in NmlTrees}

\* the record of successful job j of run j after lines 319-333
EnrichedRecord(j, nmls) ==
    "PBS log" :> PbsLog(Some(j), Some(1), Some(0))
    @@ "git log" :> parse_git_log(DefaultHistory, 1)
    @@ "MOM_time_stamp.out" :> EmptyDict
    @@ "config.yaml" :> ConfigFull
    @@ "namelists" :> nmls

\* run_summary at line 458, with n canonical runs whose namelists differ
InitCols ==
    /\ InitOthersIdle
    /\ pc = "diffed"
    /\ err = ""
    /\ limit = MaxColRuns
    /\ logs = NumberedLogs
    /\ shapes = WellFormedDirs
    /\ history = DefaultHistory
    /\ \E n \in 1..MaxColRuns :
          \E nmls \in [1..n -> RunNamelists] :
              LET enriched == [j \in 1..n |-> EnrichedRecord(j, nmls[j])]
                  ids == [j \in 1..n |-> j]
              IN  /\ order = ids
                  /\ sortedjobids = ids
                  /\ all_run_data = enriched
                  /\ run_data = GitDiffLoop(ids, TimingLoop(ids, enriched).rd)
    /\ nmls_any_runs = {}
    /\ nmls_all_runs = {}
    /\ output_format_nmls = {}
    /\ csv = None

NextCols ==
    \/ NamelistColumns
    \/ WriteCsv

SpecCols == InitCols /\ [][NextCols]_vars

\* ------------------------------------- parse_config_yaml and parse_nml alone
\* lines 329-330: the synced output directory, then the archive one
NPaths == 2

\* files a candidate path may hold, by name relative to it, and their contents
FileNames == {"config.yaml", "accessom2.nml", "ice/cice_in.nml"}
Contents == {"a", "b"}
Directories == UNION {[names -> Contents] : names \in SUBSET FileNames}

\* lines 213-220, from the path at the head of paths on
RECURSIVE parse_config_yaml(_, _)
parse_config_yaml(paths, files) ==
    IF paths = <<>> THEN EmptyDict
    ELSE IF "config.yaml" \in DOMAIN files[Head(paths)]
         THEN "config.yaml" :> files[Head(paths)]["config.yaml"]
         ELSE parse_config_yaml(Tail(paths), files)

\* lines 234-235: accessom2.nml and what the glob */*.nml finds
NmlFiles(dir) == {name \in DOMAIN dir : name # "config.yaml"}

\* lines 233-239, from the path at the head of paths on
RECURSIVE parse_nml_loop(_, _, _)
parse_nml_loop(paths, files, parsed) ==
    IF paths = <<>> THEN parsed
    ELSE LET dir == files[Head(paths)]
             new == [name \in NmlFiles(dir) |-> Some(dir[name])]
         IN  parse_nml_loop(Tail(paths), files, new @@ parsed)

\* lines 231-240
parse_nml(paths, files) == parse_nml_loop(paths, files, "accessom2.nml" :> None)

Paths == [i \in 1..NPaths |-> i]

InitReader ==
    /\ pc = "idle"
    /\ err = ""
    /\ limit = 0
    /\ logs = {}
    /\ shapes = {}
    /\ history = <<>>
    /\ order = <<>>
    /\ run_data = EmptyDict
    /\ all_run_data = EmptyDict
    /\ sortedjobids = <<>>
    /\ nmls_any_runs = {}
    /\ nmls_all_runs = {}
    /\ output_format_nmls = {}
    /\ csv = None
    /\ lines = 0
    /\ parsed_items = EmptyDict
    /\ pbs_pc = "idle"
    /\ globbed = <<>>
    /\ nread = 0
    /\ dg_args = <<>>
    /\ dg_d = None
    /\ dg_l = <<>>
    /\ dg_pc = "idle"
    /\ dg_val = None
    /\ fs \in [1..NPaths -> Directories]
    /\ reader = EmptyDict

\* line 332
ReadConfig ==
    /\ "config.yaml" \notin DOMAIN reader
    /\ reader' = Put(reader, "config.yaml", parse_config_yaml(Paths, fs))
    /\ UNCHANGED <<summaryVars, pbsVars, discVars, dictgetVars, fs>>

\* line 333
ReadNamelists ==
    /\ "namelists" \notin DOMAIN reader
    /\ reader' = Put(reader, "namelists", parse_nml(Paths, fs))
    /\ UNCHANGED <<summaryVars, pbsVars, discVars, dictgetVars, fs>>

NextReader ==
    \/ ReadConfig
    \/ ReadNamelists

SpecReader == InitReader /\ [][NextReader]_vars

\* ------------------------------------------------------------ parse_pbs_log
\* Strings are sequences of one-character strings, so that split, strip and
\* int work on them as in Python.
MaxLines == 2

\* lines 113-128: the markers, as dict keys and as text
KeyText ==
    "git commit" :> <<"g", "i", "t", " ", "c", "o", "m", "m", "i", "t">>
    @@ "Resource Usage on" :> <<"R", "e", "s", "o", "u", "r", "c", "e", " ", "U", "s", "a", "g", "e", " ", "o", "n">>
    @@ "Job Id" :> <<"J", "o", "b", " ", "I", "d">>
    @@ "Project" :> <<"P", "r", "o", "j", "e", "c", "t">>
    @@ "Exit Status" :> <<"E", "x", "i", "t", " ", "S", "t", "a", "t", "u", "s">>
    @@ "Service Units" :> <<"S", "e", "r", "v", "i", "c", "e", " ", "U", "n", "i", "t", "s">>
    @@ "NCPUs Requested" :> <<"N", "C", "P", "U", "s", " ", "R", "e", "q", "u", "e", "s", "t", "e", "d">>
    @@ "NCPUs Used" :> <<"N", "C", "P", "U", "s", " ", "U", "s", "e", "d">>
    @@ "CPU Time Used" :> <<"C", "P", "U", " ", "T", "i", "m", "e", " ", "U", "s", "e", "d">>
    @@ "Memory Requested" :> <<"M", "e", "m", "o", "r", "y", " ", "R", "e", "q", "u", "e", "s", "t", "e", "d">>
    @@ "Memory Used" :> <<"M", "e", "m", "o", "r", "y", " ", "U", "s", "e", "d">>
    @@ "Walltime requested" :> <<"W", "a", "l", "l", "t", "i", "m", "e", " ", "r", "e", "q", "u", "e", "s", "t", "e", "d">>
    @@ "Walltime Used" :> <<"W", "a", "l", "l", "t", "i", "m", "e", " ", "U", "s", "e", "d">>
    @@ "JobFS requested" :> <<"J", "o", "b", "F", "S", " ", "r", "e", "q", "u", "e", "s", "t", "e", "d">>
    @@ "JobFS used" :> <<"J", "o", "b", "F", "S", " ", "u", "s", "e", "d">>

\* lines 113-128: the function applied to what follows each marker
KeyOp ==
    "git commit" :> "getrun"
    @@ "Resource Usage on" :> "getdatetime"
    @@ "Job Id" :> "getjob"
    @@ "Project" :> "null"
    @@ "Exit Status" :> "getint"
    @@ "Service Units" :> "getfloat"
    @@ "NCPUs Requested" :> "getint"
    @@ "NCPUs Used" :> "getint"
    @@ "CPU Time Used" :> "getsec"
    @@ "Memory Requested" :> "getbytes"
    @@ "Memory Used" :> "getbytes"
    @@ "Walltime requested" :> "getsec"
    @@ "Walltime Used" :> "getsec"
    @@ "JobFS requested" :> "getbytes"
    @@ "JobFS used" :> "getbytes"

\* lines 113-128: the markers in the order of search_items
SearchKeys ==
    <<"git commit",
      "Resource Usage on",
      "Job Id",
      "Project",
      "Exit Status",
      "Service Units",
      "NCPUs Requested",
      "NCPUs Used",
      "CPU Time Used",
      "Memory Requested",
      "Memory Used",
      "Walltime requested",
      "Walltime Used",
      "JobFS requested",
      "JobFS used">>

\* lines of a PBS log, well formed and not
PbsLines ==
    {
     \* line 66
     <<"g", "i", "t", " ", "c", "o", "m", "m", "i", "t", " ", "-", "a", "m", " ", "\"", "2", "0", "1", "8", "-", "1", "0", "-", "0", "8", " ", "2", "2", ":", "3", "2", ":", "2", "6", ":", " ", "R", "u", "n", " ", "1", "3", "7", "\"">>,
     \* a commit line without a run number: l[4] is missing
     <<"g", "i", "t", " ", "c", "o", "m", "m", "i", "t", " ", "-", "a", "m", " ", "\"", "t", "i", "d", "y", " ", "u", "p", "\"">>,
     \* the run number is not an integer
     <<"g", "i", "t", " ", "c", "o", "m", "m", "i", "t", " ", "-", "a", "m", " ", "\"", "2", "0", "1", "8", "-", "1", "0", "-", "0", "8", " ", "2", "2", ":", "3", "2", ":", "2", "6", ":", " ", "R", "u", "n", " ", "x", "\"">>,
     \* line 69
     <<" ", " ", " ", "R", "e", "s", "o", "u", "r", "c", "e", " ", "U", "s", "a", "g", "e", " ", "o", "n", " ", "2", "0", "1", "8", "-", "1", "0", "-", "0", "8", " ", "2", "2", ":", "3", "2", ":", "3", "6", ":">>,
     \* line 70
     <<" ", " ", " ", "J", "o", "b", " ", "I", "d", ":", " ", " ", " ", "9", "4", "9", "7", "5", "3", ".", "r", "-", "m", "a", "n", "2">>,
     \* line 71
     <<" ", " ", " ", "P", "r", "o", "j", "e", "c", "t", ":", " ", " ", " ", "x", "7", "7">>,
     \* line 72
     <<" ", " ", " ", "E", "x", "i", "t", " ", "S", "t", "a", "t", "u", "s", ":", " ", " ", " ", "0">>,
     \* a failed job
     <<" ", " ", " ", "E", "x", "i", "t", " ", "S", "t", "a", "t", "u", "s", ":", " ", " ", " ", "2", "7", "1">>,
     \* the value is missing: l[1] is missing
     <<" ", " ", " ", "E", "x", "i", "t", " ", "S", "t", "a", "t", "u", "s", ":">>,
     \* the exit status is not numeric
     <<" ", " ", " ", "E", "x", "i", "t", " ", "S", "t", "a", "t", "u", "s", ":", " ", " ", " ", "n", "/", "a">>,
     \* line 73
     <<" ", " ", " ", "S", "e", "r", "v", "i", "c", "e", " ", "U", "n", "i", "t", "s", ":", " ", " ", " ", "2", "0", "4", "4", "0", ".", "4", "0">>,
     \* line 74
     <<" ", " ", " ", "N", "C", "P", "U", "s", " ", "R", "e", "q", "u", "e", "s", "t", "e", "d", ":", " ", " ", "5", "9", "6", "8", " ", " ", " ", " ", " ", "N", "C", "P", "U", "s", " ", "U", "s", "e", "d", ":", " ", "5", "9", "6", "8">>,
     \* line 76, with sizes that fit 32 bits
     <<" ", " ", " ", "M", "e", "m", "o", "r", "y", " ", "R", "e", "q", "u", "e", "s", "t", "e", "d", ":", " ", " ", "1", ".", "5", "K", "B", " ", " ", " ", " ", " ", "M", "e", "m", "o", "r", "y", " ", "U", "s", "e", "d", ":", " ", "3", "M", "B">>,
     \* line 77
     <<" ", " ", " ", "W", "a", "l", "l", "t", "i", "m", "e", " ", "r", "e", "q", "u", "e", "s", "t", "e", "d", ":", " ", "0", "5", ":", "0", "0", ":", "0", "0", " ", " ", " ", " ", "W", "a", "l", "l", "t", "i", "m", "e", " ", "U", "s", "e", "d", ":", " ", "0", "3", ":", "2", "5", ":", "3", "0">>,
     \* an unknown byte unit
     <<" ", " ", " ", "J", "o", "b", "F", "S", " ", "r", "e", "q", "u", "e", "s", "t", "e", "d", ":", " ", " ", "1", ".", "0", "K", "B", " ", " ", " ", " ", " ", "J", "o", "b", "F", "S", " ", "u", "s", "e", "d", ":", " ", "2", "P", "B">>,
     \* a size without a unit
     <<" ", " ", " ", "J", "o", "b", "F", "S", " ", "u", "s", "e", "d", ":", " ", "0">>,
     \* a duration that is not hh:mm:ss
     <<" ", " ", " ", "W", "a", "l", "l", "t", "i", "m", "e", " ", "U", "s", "e", "d", ":", " ", "3", "h">>
    }

Digits == {"0", "1", "2", "3", "4", "5", "6", "7", "8", "9"}

DigitVal(c) ==
    CASE c = "0" -> 0 [] c = "1" -> 1 [] c = "2" -> 2 [] c = "3" -> 3 [] c = "4" -> 4
      [] c = "5" -> 5 [] c = "6" -> 6 [] c = "7" -> 7 [] c = "8" -> 8 [] c = "9" -> 9

\* str.split(key) finds key at position i of s
OccursAt(s, key, i) ==
    i + Len(key) - 1 <= Len(s) /\ SubSeq(s, i, i + Len(key) - 1) = key

\* the first position from `from` on where key occurs in s, 0 if none
FirstAt(s, key, from) ==
    LET hits == {i \in from..Len(s) : OccursAt(s, key, i)}
    IN  IF hits = {} THEN 0 ELSE CHOOSE i \in hits : \A k \in hits : i <= k

\* line 136: line.split(key)[1], for a line that holds key
SplitKey1(s, key) ==
    LET start == FirstAt(s, key, 1) + Len(key)
        next == FirstAt(s, key, start)
    IN  SubSeq(s, start, IF next = 0 THEN Len(s) ELSE next - 1)

\* str.split(): the words between runs of white space
RECURSIVE SplitWs(_)
SplitWs(s) ==
    IF s = <<>> THEN <<>>
    ELSE IF Head(s) \in {" ", "\n"} THEN SplitWs(Tail(s))
    ELSE LET stops == {i \in 1..Len(s) : s[i] \in {" ", "\n"}}
             end == IF stops = {} THEN Len(s) + 1
                    ELSE CHOOSE i \in stops : \A k \in stops : i <= k
         IN  <<SubSeq(s, 1, end - 1)>> \o SplitWs(SubSeq(s, end, Len(s)))

\* str.split(c) for a one-character separator
RECURSIVE SplitChar(_, _)
SplitChar(s, c) ==
    LET stops == {i \in 1..Len(s) : s[i] = c}
    IN  IF stops = {} THEN <<s>>
        ELSE LET end == CHOOSE i \in stops : \A k \in stops : i <= k
             IN  <<SubSeq(s, 1, end - 1)>> \o SplitChar(SubSeq(s, end + 1, Len(s)), c)

RECURSIVE RStrip(_, _)
RStrip(s, cs) ==
    IF s # <<>> /\ s[Len(s)] \in cs THEN RStrip(SubSeq(s, 1, Len(s) - 1), cs) ELSE s

RECURSIVE LStrip(_, _)
LStrip(s, cs) == IF s # <<>> /\ Head(s) \in cs THEN LStrip(Tail(s), cs) ELSE s

Strip(s, cs) == LStrip(RStrip(s, cs), cs)

\* int(s) accepts s: decimal digits (the logs hold no sign or underscore)
IsInt(s) == s # <<>> /\ \A i \in 1..Len(s) : s[i] \in Digits

RECURSIVE IntOf(_)
IntOf(s) == IF s = <<>> THEN 0 ELSE IntOf(SubSeq(s, 1, Len(s) - 1)) * 10 + DigitVal(s[Len(s)])

\* float(s) accepts s: digits with at most one point (no exponent in the logs)
IsFloat(s) ==
    /\ \A i \in 1..Len(s) : s[i] \in Digits \cup {"."}
    /\ Cardinality({i \in 1..Len(s) : s[i] = "."}) <= 1
    /\ \E i \in 1..Len(s) : s[i] \in Digits

\* float(s) as a fraction: the digits over a power of ten
FloatOf(s) ==
    LET parts == SplitChar(s, ".")
        frac == IF Len(parts) = 2 THEN parts[2] ELSE <<>>
    IN  [num |-> IntOf(parts[1] \o frac), den |-> 10 ^ Len(frac)]

\* int(round(x)) of the fraction n/d: to the nearest, a tie to the even one
RoundDiv(n, d) ==
    LET q == n \div d
        r == n % d
    IN  IF 2 * r < d THEN q
        ELSE IF 2 * r > d THEN q + 1
        ELSE IF q % 2 = 0 THEN q ELSE q + 1

\* lines 106-110: the keys of units
UnitNames == {<<"B">>, <<"K", "B">>, <<"M", "B">>, <<"G", "B">>, <<"T", "B">>}

\* lines 106-110
units(u) ==
    CASE u = <<"B">> -> 1
      [] u = <<"K", "B">> -> 2 ^ 10
      [] u = <<"M", "B">> -> 2 ^ 20
      [] u = <<"G", "B">> -> 2 ^ 30
      [] u = <<"T", "B">> -> 2 ^ 40

Ok(v) == [exc |-> "", val |-> v]
Exc(e) == [exc |-> e, val |-> None]

\* lines 82-83; l is the list of words, l[0] in Python is l[1] here
null(l) == IF Len(l) < 2 THEN Exc("IndexError") ELSE Ok(l[2])

\* lines 85-86
getrun(l) ==
    IF Len(l) < 5 THEN Exc("IndexError")
    ELSE IF ~IsInt(RStrip(l[5], {"\""})) THEN Exc("ValueError")
    ELSE Ok(IntOf(RStrip(l[5], {"\""})))

\* lines 88-89
getjob(l) ==
    IF Len(l) < 2 THEN Exc("IndexError")
    ELSE IF ~IsInt(SplitChar(l[2], ".")[1]) THEN Exc("ValueError")
    ELSE Ok(IntOf(SplitChar(l[2], ".")[1]))

\* lines 91-92
getint(l) ==
    IF Len(l) < 2 THEN Exc("IndexError")
    ELSE IF ~IsInt(l[2]) THEN Exc("ValueError")
    ELSE Ok(IntOf(l[2]))

\* lines 94-95
getfloat(l) ==
    IF Len(l) < 2 THEN Exc("IndexError")
    ELSE IF ~IsFloat(l[2]) THEN Exc("ValueError")
    ELSE Ok(FloatOf(l[2]))

\* lines 97-98: zip stops at the shorter of [3600, 60, 1] and the parts
getsec(l) ==
    IF Len(l) < 2 THEN Exc("IndexError")
    ELSE LET t == SplitChar(l[2], ":")
             n == Min(Len(t), 3)
             x == <<3600, 60, 1>>
         IN  IF \E i \in 1..n : ~IsInt(t[i]) THEN Exc("ValueError")
             ELSE Ok((IF n >= 1 THEN x[1] * IntOf(t[1]) ELSE 0)
                     + (IF n >= 2 THEN x[2] * IntOf(t[2]) ELSE 0)
                     + (IF n >= 3 THEN x[3] * IntOf(t[3]) ELSE 0))

\* lines 100-101
getdatetime(l) ==
    IF Len(l) < 2 THEN Exc("IndexError")
    ELSE Ok(l[1] \o <<"T">> \o RStrip(l[2], {":"}))

\* lines 103-111
getbytes(l) ==
    IF Len(l) < 2 THEN Exc("IndexError")
    ELSE LET s == l[2]
             ns == Strip(s, {"B", "K", "M", "G", "T"})
             u == SubSeq(s, Len(ns) + 1, Len(s))
         IN  IF ~IsFloat(ns) THEN Exc("ValueError")
             ELSE IF u \notin UnitNames THEN Exc("KeyError")
             ELSE Ok(RoundDiv(FloatOf(ns).num * units(u), FloatOf(ns).den))

Apply(op, l) ==
    CASE op = "null" -> null(l)
      [] op = "getrun" -> getrun(l)
      [] op = "getjob" -> getjob(l)
      [] op = "getint" -> getint(l)
      [] op = "getfloat" -> getfloat(l)
      [] op = "getsec" -> getsec(l)
      [] op = "getdatetime" -> getdatetime(l)
      [] op = "getbytes" -> getbytes(l)

\* line 136 for one key: op(line.split(key)[1].split())
Extract(line, key) ==
    IF FirstAt(line, KeyText[key], 1) = 0 THEN Exc("IndexError")
    ELSE Apply(KeyOp[key], SplitWs(SplitKey1(line, KeyText[key])))

\* line 137: except IndexError
Caught(e) == e = "IndexError"

\* lines 134-138 for one line, from the key at the head of keys on
RECURSIVE ParseKeys(_, _, _)
ParseKeys(keys, line, items) ==
    IF keys = <<>> THEN [items |-> items, exc |-> ""]
    ELSE LET r == Extract(line, Head(keys))
         IN  IF r.exc = "" THEN ParseKeys(Tail(keys), line, Put(items, Head(keys), Some(r.val)))
             ELSE IF Caught(r.exc) THEN ParseKeys(Tail(keys), line, items)
             ELSE [items |-> items, exc |-> r.exc]

\* lines 141-144
rename_keys == "git commit" :> "Run number" @@ "Resource Usage on" :> "Run completion date"

Renamed(items) ==
    [k \in (DOMAIN items \ DOMAIN rename_keys) \cup {rename_keys[o] : o \in DOMAIN rename_keys} |->
        IF k \in DOMAIN items \ DOMAIN rename_keys THEN items[k]
        ELSE items[CHOOSE o \in DOMAIN rename_keys : rename_keys[o] = k]]

InitPbs ==
    /\ pc = "idle"
    /\ err = ""
    /\ limit = 0
    /\ logs = {}
    /\ shapes = {}
    /\ history = <<>>
    /\ order = <<>>
    /\ run_data = EmptyDict
    /\ all_run_data = EmptyDict
    /\ sortedjobids = <<>>
    /\ nmls_any_runs = {}
    /\ nmls_all_runs = {}
    /\ output_format_nmls = {}
    /\ csv = None
    /\ fs = <<>>
    /\ reader = EmptyDict
    /\ lines = 0
    /\ parsed_items = [k \in DOMAIN KeyOp |-> None]
    /\ pbs_pc = "reading"
    /\ globbed = <<>>
    /\ nread = 0
    /\ dg_args = <<>>
    /\ dg_d = None
    /\ dg_l = <<>>
    /\ dg_pc = "idle"
    /\ dg_val = None

\* lines 132-138 for the next line of the file
ParseLine ==
    /\ pbs_pc = "reading"
    /\ lines < MaxLines
    /\ \E line \in PbsLines :
          LET r == ParseKeys(SearchKeys, line, parsed_items)
          IN  /\ parsed_items' = r.items
              /\ pbs_pc' = IF r.exc = "" THEN "reading" ELSE r.exc
    /\ lines' = lines + 1
    /\ UNCHANGED <<summaryVars, readerVars, discVars, dictgetVars>>

\* lines 140-146 at the end of the file
ReturnParsed ==
    /\ pbs_pc = "reading"
    /\ parsed_items' = Renamed(parsed_items)
    /\ pbs_pc' = "returned"
    /\ UNCHANGED <<summaryVars, readerVars, discVars, dictgetVars, lines>>

NextPbs ==
    \/ ParseLine
    \/ ReturnParsed

SpecPbs == InitPbs /\ [][NextPbs]_vars

\* ------------------------------------------------ the discovery of job logs
MaxJobId == 2
MaxFiles == 3

\* the control directory; the second one has ".o" in its own name
BasePaths ==
    {<<"/", "c">>,
     <<"/", "c", ".", "o", "l", "d">>}

sync_path == <<"/", "s">>
jobname == <<"o", "m">>

\* the three globs of lines 308-310 with the synced directory listed first
RootRank_SyncFirst(root) ==
    CASE root = "sync" -> 1 [] root = "archive" -> 2 [] root = "base" -> 3

\* the three globs of lines 308-310, in the order they are concatenated
RootRank(root) ==
    CASE root = "archive" -> 1 [] root = "base" -> 2 [] root = "sync" -> 3

Roots == {"archive", "base", "sync"}

\* os.path.join(basepath, 'archive/pbs_logs', ...) and its two siblings
RootDir(basepath, root) ==
    CASE root = "archive" -> basepath \o <<"/", "a", "r", "c", "h", "i", "v", "e", "/", "p", "b", "s", "_", "l", "o", "g", "s", "/">>
      [] root = "base" -> basepath \o <<"/">>
      [] root = "sync" -> sync_path \o <<"/", "p", "b", "s", "_", "l", "o", "g", "s", "/">>

\* the job numbers PBS appends to the name of a log: 41, 42, ...
JobNumbers == {<<"4", d>> : d \in {c \in Digits : DigitVal(c) \in 1..MaxJobId}}

LogPath(basepath, root, number) ==
    RootDir(basepath, root) \o jobname \o <<".", "o">> \o number

\* what parse_pbs_log may return for a copy of a log: the job as it ended,
\* or as it stood when an earlier copy was made
CopyLogs == {PbsLog(Some(1), Some(1), Some(0)), PbsLog(Some(1), None, None)}

LogFiles(basepath) ==
    {[root |-> root, number |-> number, path |-> LogPath(basepath, root, number),
      log |-> log] : root \in Roots, number \in JobNumbers, log \in CopyLogs}

\* a glob lists each file once; the order within one directory is arbitrary
Globs(basepath) ==
    UNION {{g \in [1..n -> LogFiles(basepath)] :
               /\ \A i, k \in 1..n : i < k => RootRank(g[i].root) <= RootRank(g[k].root)
               /\ \A i, k \in 1..n : i # k => g[i].path # g[k].path}
           : n \in 0..MaxFiles}

\* line 313: int(f.split('.o')[1])
jobid_of(f) ==
    LET piece == SplitKey1(f, <<".", "o">>)
    IN  IF IsInt(piece) THEN Ok(IntOf(piece)) ELSE Exc("ValueError")

InitDiscover ==
    /\ pc = "globbed"
    /\ err = ""
    /\ limit = MaxFiles
    /\ logs = CopyLogs
    /\ shapes = {}
    /\ history = <<>>
    /\ order = <<>>
    /\ run_data = EmptyDict
    /\ all_run_data = EmptyDict
    /\ sortedjobids = <<>>
    /\ nmls_any_runs = {}
    /\ nmls_all_runs = {}
    /\ output_format_nmls = {}
    /\ csv = None
    /\ fs = <<>>
    /\ reader = EmptyDict
    /\ lines = 0
    /\ parsed_items = EmptyDict
    /\ pbs_pc = "idle"
    /\ \E basepath \in BasePaths : globbed \in Globs(basepath)
    /\ nread = 0
    /\ dg_args = <<>>
    /\ dg_d = None
    /\ dg_l = <<>>
    /\ dg_pc = "idle"
    /\ dg_val = None

\* lines 312-316 for the next file of the list
ReadLogFile ==
    /\ pc = "globbed"
    /\ nread < Len(globbed)
    /\ LET f == globbed[nread + 1]
           jobid == jobid_of(f.path)
       IN  IF jobid.exc # ""
           THEN /\ Raise("jobid: " \o jobid.exc)
                /\ UNCHANGED nread
           ELSE /\ run_data' = Put(run_data, jobid.val,
                                     "PBS log" :> Put(f.log, "PBS log file", f.path))
                /\ order' = IF jobid.val \in DOMAIN run_data THEN order
                             ELSE Append(order, jobid.val)
                /\ nread' = nread + 1
                /\ UNCHANGED <<pc, err, all_run_data, sortedjobids>>
    /\ UNCHANGED <<limit, logs, shapes, history,
                   nmls_any_runs, nmls_all_runs, output_format_nmls, csv>>
    /\ UNCHANGED <<readerVars, pbsVars, dictgetVars, globbed>>

\* the for loop of line 308 ends
EndOfLogs ==
    /\ pc = "globbed"
    /\ nread = Len(globbed)
    /\ pc' = "discovered"
    /\ UNCHANGED <<err, limit, logs, shapes, history, order, run_data, all_run_data,
                   sortedjobids, nmls_any_runs, nmls_all_runs, output_format_nmls, csv>>
    /\ UNCHANGED <<readerVars, pbsVars, discVars, dictgetVars>>

NextDiscover ==
    \/ ReadLogFile
    \/ EndOfLogs

SpecDiscover == InitDiscover /\ [][NextDiscover]_vars

\* ------------------------------------------ dictget over any tree of values
MaxItems == 1
MaxKeys == 2

\* Python values with their type: None, int, str, list and dict
NoneV == <<"None">>
IntV(n) == <<"int", n>>
StrV(s) == <<"str", s>>
ListV(s) == <<"list", s>>
DictV(f) == <<"dict", f>>
TypeOf(v) == v[1]
Data(v) == v[2]

\* the keys of the mappings, and the steps a list of keys may hold
DictKeys == {StrV(<<"a">>), StrV(<<"b">>)}
Steps == DictKeys \cup {IntV(n) : n \in 0..MaxItems}

Scalars == {NoneV, IntV(7), StrV(<<"x">>)}

ListsOf(items) == UNION {{ListV(q) : q \in [1..n -> items]} : n \in 0..MaxItems}

DictsOf(items) == UNION {{DictV(f) : f \in [K -> items]} : K \in SUBSET DictKeys}

\* a scalar, or a sequence or mapping of scalars
Shallow == Scalars \cup ListsOf(Scalars) \cup DictsOf(Scalars)

Trees == Shallow \cup ListsOf(Shallow) \cup DictsOf(Shallow)

KeyLists == UNION {[1..n -> Steps] : n \in 1..MaxKeys}

\* d[k] of line 279: the value, or the exception Python raises
getitem(d, k) ==
    CASE TypeOf(d) = "dict" ->
            IF k \in DOMAIN Data(d) THEN Ok(Data(d)[k]) ELSE Exc("KeyError")
      [] TypeOf(d) = "list" ->
            IF TypeOf(k) # "int" THEN Exc("TypeError")
            ELSE IF Data(k) < Len(Data(d)) THEN Ok(Data(d)[Data(k) + 1])
            ELSE Exc("IndexError")
      [] TypeOf(d) = "str" ->
            IF TypeOf(k) # "int" THEN Exc("TypeError")
            ELSE IF Data(k) < Len(Data(d)) THEN Ok(StrV(<<Data(d)[Data(k) + 1]>>))
            ELSE Exc("IndexError")
      [] OTHER -> Exc("TypeError")

\* line 280: except (KeyError, TypeError)
DictgetCatches == {"KeyError", "TypeError"}

InitDictget ==
    /\ pc = "idle"
    /\ err = ""
    /\ limit = 0
    /\ logs = {}
    /\ shapes = {}
    /\ history = <<>>
    /\ order = <<>>
    /\ run_data = EmptyDict
    /\ all_run_data = EmptyDict
    /\ sortedjobids = <<>>
    /\ nmls_any_runs = {}
    /\ nmls_all_runs = {}
    /\ output_format_nmls = {}
    /\ csv = None
    /\ fs = <<>>
    /\ reader = EmptyDict
    /\ lines = 0
    /\ parsed_items = EmptyDict
    /\ pbs_pc = "idle"
    /\ globbed = <<>>
    /\ nread = 0
    /\ dg_d \in Trees
    /\ dg_l \in KeyLists
    /\ dg_args = <<dg_d, dg_l>>
    /\ dg_pc = "called"
    /\ dg_val = None

\* lines 278-283 for one call: return, raise, or call dictget(dl0, l[1:])
DictgetCall ==
    /\ dg_pc = "called"
    /\ LET dl0 == getitem(dg_d, dg_l[1])
       IN  IF dl0.exc \in DictgetCatches
           THEN /\ dg_pc' = "returned"
                /\ dg_val' = NoneV
                /\ UNCHANGED <<dg_d, dg_l>>
           ELSE IF dl0.exc # ""
           THEN /\ dg_pc' = dl0.exc
                /\ UNCHANGED <<dg_d, dg_l, dg_val>>
           ELSE IF Len(dg_l) = 1
           THEN /\ dg_pc' = "returned"
                /\ dg_val' = dl0.val
                /\ UNCHANGED <<dg_d, dg_l>>
           ELSE /\ dg_d' = dl0.val
                /\ dg_l' = Tail(dg_l)
                /\ UNCHANGED <<dg_pc, dg_val>>
    /\ UNCHANGED <<summaryVars, readerVars, pbsVars, discVars, dg_args>>

NextDictget == DictgetCall

SpecDictget == InitDictget /\ [][NextDictget]_vars

\* ------------------------------------------------------------------ claims
Successful(pbs) == pbs["Run completion date"] # None /\ pbs["Exit Status"] = Some(0)

AfterDedup == pc \in {"deduped", "timed", "diffed", "columns", "done"}
AfterTiming == pc \in {"timed", "diffed", "columns", "done"}
AfterGitDiff == pc \in {"diffed", "columns", "done"}

\* C1: the canonical run sequence sortedjobids is strictly increasing in run
\* number, so no two of its entries share a run number.
C1_StrictlyIncreasing ==
    AfterDedup =>
        /\ Len(sortedjobids) >= 1
        /\ {sortedjobids[i] : i \in 1..Len(sortedjobids)} = DOMAIN run_data
        /\ \A i, j \in 1..Len(sortedjobids) :
              i < j => Val(RunOf(run_data, sortedjobids[i]))
                         < Val(RunOf(run_data, sortedjobids[j]))

\* a rerun was dropped and two runs remain
C1_Witness ==
    /\ AfterDedup
    /\ Len(sortedjobids) >= 2
    /\ Cardinality(DOMAIN all_run_data) > Len(sortedjobids)
    /\ \E j \in DOMAIN all_run_data \ DOMAIN run_data : Successful(all_run_data[j]["PBS log"])

SuccessfulWithRun(run) ==
    {j \in DOMAIN all_run_data : /\ Successful(all_run_data[j]["PBS log"])
                                 /\ RunOf(all_run_data, j) = run}

\* C2: of the successful records with one run number exactly one is left in
\* run_data after the scan, and none of the others completed later than it.
C2_LatestKept ==
    AfterDedup =>
        \A run \in RunNumbers :
            SuccessfulWithRun(run) # {} =>
                \E j \in SuccessfulWithRun(run) :
                    /\ SuccessfulWithRun(run) \cap DOMAIN run_data = {j}
                    /\ \A k \in SuccessfulWithRun(run) :
                          Val(DateOf(all_run_data, k)) <= Val(DateOf(all_run_data, j))

\* three successful jobs share a run number and the first read is not the latest
C2_Witness ==
    /\ AfterDedup
    /\ \E run \in RunNumbers :
          /\ Cardinality(SuccessfulWithRun(run)) >= 3
          /\ \E k \in SuccessfulWithRun(run) :
                Val(DateOf(all_run_data, k)) > Val(DateOf(all_run_data, 1))
          /\ 1 \in SuccessfulWithRun(run)

CommitOf(jobid) == run_data[jobid]["git log"]["Commit"]

\* C5: the git diff of the run at position i is taken from the commit of the
\* run at position i-1 to its own commit; the first run is diffed with itself,
\* which leaves no changed file and null messages.
C5_DiffSincePreviousRun ==
    AfterGitDiff =>
        \A i \in 1..Len(sortedjobids) :
            LET d == run_data[sortedjobids[i]]["git diff"]
            IN  IF i = 1
                THEN d["Changed files"] = <<>> /\ d["Messages"] = None
                ELSE d = git_diff(CommitOf(sortedjobids[i - 1]), CommitOf(sortedjobids[i]))

\* a later run whose commit differs from that of the run before it
C5_Witness ==
    /\ AfterGitDiff
    /\ Len(sortedjobids) >= 2
    /\ \E i \in 2..Len(sortedjobids) :
          /\ CommitOf(sortedjobids[i - 1]) < CommitOf(sortedjobids[i])
          /\ run_data[sortedjobids[i]]["git diff"]["Messages"] # None
          /\ run_data[sortedjobids[i]]["git diff"]["Changed files"] # <<>>

\* the record the program holds for a job once the failed and superseded
\* jobs have left run_data
Held(jobid) ==
    IF jobid \in DOMAIN run_data THEN run_data[jobid] ELSE all_run_data[jobid]

C9_NoCommitTolerated == err # "parse_git_log: IndexError"

\* C10: a run whose config or namelist data has neither timing layout does
\* not end the report: run_summary does not stop in the timing pass.
C10_TimingFailureConfined == err # "timing: KeyError"

GroupNames == {"thermo_nml", "setup_nml", "accessom2_nml", "date_manager_nml"}
VarNames == {"ktherm", "kitd", "ndtd", "ice_ocean_timestep", "restart_period"}
NmlNames == {"accessom2.nml", "ice/cice_in.nml"}

\* the run has the namelist file and it is not None
HasNml(jobid, nml) ==
    /\ nml \in DOMAIN run_data[jobid]["namelists"]
    /\ run_data[jobid]["namelists"][nml] # None

\* the value of nml/group/var in a run, None when the run does not have it
ValueIn(jobid, nml, group, var) ==
    LET n == run_data[jobid]["namelists"][nml]
    IN  IF group \in DOMAIN n /\ var \in DOMAIN n[group] THEN Some(n[group][var]) ELSE None

\* C3: for a namelist that every canonical run has, nml -> group -> var is a
\* dynamic column exactly when two canonical runs differ in its value (a run
\* without the variable counting as a null value).
C3_ColumnIffValueDiffers ==
    pc \in {"columns", "done"} =>
        \A nml \in NmlNames :
            (\A j \in DOMAIN run_data : HasNml(j, nml)) =>
                \A group \in GroupNames, var \in VarNames :
                    <<nml, group, var>> \in output_format_nmls
                    <=> \E j, k \in DOMAIN run_data :
                           ValueIn(j, nml, group, var) # ValueIn(k, nml, group, var)

\* ice/cice_in.nml is in both runs; ktherm differs and is a column, kitd is
\* the same in both and is none
C3_Witness ==
    /\ pc = "columns"
    /\ Cardinality(DOMAIN run_data) >= 2
    /\ \A j \in DOMAIN run_data : HasNml(j, "ice/cice_in.nml")
    /\ <<"ice/cice_in.nml", "thermo_nml", "ktherm">> \in output_format_nmls
    /\ \A j \in DOMAIN run_data :
          ValueIn(j, "ice/cice_in.nml", "thermo_nml", "kitd") = Some(1)
    /\ <<"ice/cice_in.nml", "thermo_nml", "kitd">> \notin output_format_nmls

\* C4: for a namelist that some canonical runs have and others lack, every
\* group/variable of a run that has it is a dynamic column, and the row of
\* every run that lacks it holds None in each of these columns.
C4_SomeRunsColumnsAllNull ==
    pc = "done" =>
        \A nml \in NmlNames :
            ((\E j \in DOMAIN run_data : HasNml(j, nml))
             /\ (\E j \in DOMAIN run_data : ~HasNml(j, nml))) =>
                \A j \in DOMAIN run_data :
                    HasNml(j, nml) =>
                        \A group \in DOMAIN run_data[j]["namelists"][nml] :
                            \A var \in DOMAIN run_data[j]["namelists"][nml][group] :
                                /\ <<nml, group, var>> \in output_format_nmls
                                /\ \A i \in 1..Len(sortedjobids) :
                                      ~HasNml(sortedjobids[i], nml) =>
                                          Val(csv)[i].nmls[<<nml, group, var>>] = None

\* ice/cice_in.nml is in one run only, accessom2.nml is None in one run only
C4_Witness ==
    /\ pc = "done"
    /\ \E j, k \in DOMAIN run_data :
          /\ HasNml(j, "ice/cice_in.nml")
          /\ "ice/cice_in.nml" \notin DOMAIN run_data[k]["namelists"]
          /\ <<"ice/cice_in.nml", "thermo_nml", "kitd">> \in output_format_nmls
    /\ \E j, k \in DOMAIN run_data :
          /\ HasNml(j, "accessom2.nml")
          /\ run_data[k]["namelists"]["accessom2.nml"] = None
          /\ <<"accessom2.nml", "accessom2_nml", "ice_ocean_timestep">> \in output_format_nmls

\* the first candidate path that holds the file
FirstWith(name) == CHOOSE i \in 1..NPaths : name \in DOMAIN fs[i] /\ \A k \in 1..(i - 1) : name \notin DOMAIN fs[k]

\* C6: a config or namelist file found under several candidate paths is
\* returned as read from the earliest of them, by parse_config_yaml and by
\* parse_nml.
C6_EarliestPathWins ==
    /\ "config.yaml" \in DOMAIN reader =>
          ((\E i \in 1..NPaths : "config.yaml" \in DOMAIN fs[i]) =>
              reader["config.yaml"]["config.yaml"] = fs[FirstWith("config.yaml")]["config.yaml"])
    /\ "namelists" \in DOMAIN reader =>
          \A name \in FileNames \ {"config.yaml"} :
              (\E i \in 1..NPaths : name \in DOMAIN fs[i]) =>
                  reader["namelists"][name] = Some(fs[FirstWith(name)][name])

\* C8: in parse_pbs_log an extraction function that fails on a line holding
\* its marker, for missing or for malformed words, never ends the parse: the
\* remaining lines are read and a record is returned.
C8_ExtractionFailureSkipsField == pbs_pc \in {"idle", "reading", "returned"}

\* ------------------------------------------------------------------- C11
NoSuccessfulJob ==
    \A j \in DOMAIN all_run_data : ~Successful(all_run_data[j]["PBS log"])

\* the stages before the output stage have left their results
StagesCompleted ==
    /\ Len(sortedjobids) >= 1
    /\ \A i \in 1..Len(sortedjobids) :
          /\ sortedjobids[i] \in DOMAIN run_data
          /\ HasKey(run_data[sortedjobids[i]], "timing")
          /\ HasKey(run_data[sortedjobids[i]], "git diff")

\* C11: when no job is successful (none read, or each with a null completion
\* date or a nonzero exit status) the run ends aborted and the output file is
\* never written; the output file is written only in the last step, after
\* the registry, de-duplication, timing, git diff and column stages.
C11_AbortWritesNoFile ==
    /\ (pc \notin {"discover", "enriched"} /\ NoSuccessfulJob)
          => (pc = "aborted" /\ csv = None)
    /\ pc = "aborted" => (NoSuccessfulJob /\ csv = None)
    /\ csv # None =>
          /\ pc = "done"
          /\ ~NoSuccessfulJob
          /\ StagesCompleted
          /\ Len(Val(csv)) = Len(sortedjobids)

\* aborted with a job that has no completion date and one that exited nonzero
C11_Witness ==
    /\ pc = "aborted"
    /\ csv = None
    /\ \E j, k \in DOMAIN all_run_data :
          /\ DateOf(all_run_data, j) = None
          /\ DateOf(all_run_data, k) # None
          /\ all_run_data[k]["PBS log"]["Exit Status"] # Some(0)

\* ------------------------------------------------------------------- C12
Listed == {globbed[i] : i \in 1..Len(globbed)}

CopiesOf(jobid) == {f \in Listed : IntOf(f.number) = jobid}

KeptFrom(jobid, f) ==
    run_data[jobid]["PBS log"] = Put(f.log, "PBS log file", f.path)

\* C12: after the discovery loop run_data has one record for each job number
\* among the listed logs and no other; the record of a job with a copy under
\* the synced pbs_logs is the one parsed from a synced copy, file path
\* included, and every other record is parsed from one of the job's copies.
C12_SyncedCopyPreferred ==
    pc = "discovered" =>
        /\ DOMAIN run_data = {IntOf(f.number) : f \in Listed}
        /\ Len(order) = Cardinality(DOMAIN run_data)
        /\ {order[i] : i \in 1..Len(order)} = DOMAIN run_data
        /\ \A jobid \in DOMAIN run_data :
              LET synced == {f \in CopiesOf(jobid) : f.root = "sync"}
              IN  IF synced # {} THEN \E f \in synced : KeptFrom(jobid, f)
                  ELSE \E f \in CopiesOf(jobid) : KeptFrom(jobid, f)

\* a job with differing copies under a local directory and the synced one,
\* next to a job with a local copy only
C12_Witness ==
    /\ pc = "discovered"
    /\ Cardinality(DOMAIN run_data) = 2
    /\ \E f, g \in Listed :
          /\ f.root # "sync"
          /\ g.root = "sync"
          /\ f.number = g.number
          /\ f.log # g.log
          /\ KeptFrom(IntOf(g.number), g)

\* ------------------------------------------------------------------- C13
\* the value at the end of the path l in d; a step exists in a mapping that
\* has the key and in a sequence that has the index, and in nothing else
RECURSIVE ValueAt(_, _)
ValueAt(d, l) ==
    LET found ==
            IF TypeOf(d) = "dict" THEN l[1] \in DOMAIN Data(d)
            ELSE IF TypeOf(d) = "list" THEN TypeOf(l[1]) = "int" /\ Data(l[1]) < Len(Data(d))
            ELSE FALSE
        item == IF TypeOf(d) = "dict" THEN Data(d)[l[1]] ELSE Data(d)[Data(l[1]) + 1]
    IN  IF ~found THEN NoneV
        ELSE IF Len(l) = 1 THEN item
        ELSE ValueAt(item, Tail(l))

\* C13: dictget never raises; it returns the value at the path when every
\* step of the path exists and None when a key is absent from a mapping, an
\* index is past the end of a sequence, or a step is applied to a scalar or
\* to None.
C13_NoneOnAnyMiss ==
    /\ dg_pc \in {"idle", "called", "returned"}
    /\ dg_pc = "returned" => dg_val = ValueAt(dg_args[1], dg_args[2])

====
